---- MODULE Spec2Model ----
\* index.js of backend-tut: a raw http server (lines 1-14) and an Express app
\* (lines 15-43) started by one script.  Three specifications:
\*   Spec         - the two request listeners driven directly with requests
\*   SpecBoot     - the script itself, line by line, then Node's event loop
\*   SpecRegister - app.get applied to arbitrary paths
EXTENDS Integers, Sequences, FiniteSets, TLC

VARIABLES stack, viewEngine, viewPresent, reqs, pc, bound, serverState,
          appState, tickQueue, backlog, regCalls

vars == <<stack, viewEngine, viewPresent, reqs, pc, bound, serverState,
          appState, tickQueue, backlog, regCalls>>

\* ---------------------------------------------------------------- bounds
MaxReqs == 2
MaxBacklog == 2
MaxRoutes == 4

\* ---------------------------------------------------------------- inputs
\* URLs are sequences of characters, so that matching is computed on them.
RootUrl == <<"/">>
AboutUrl == <<"/", "a", "b", "o", "u", "t">>
ContactUrl == <<"/", "c", "o", "n", "t", "a", "c", "t">>
AboutUpperUrl == <<"/", "A", "b", "o", "u", "t">>
AboutSlashUrl == <<"/", "a", "b", "o", "u", "t", "/">>
AboutQueryUrl == <<"/", "a", "b", "o", "u", "t", "?", "x", "=", "1">>
UnknownUrl == <<"/", "u", "n", "k", "n", "o", "w", "n">>

Urls == {RootUrl, AboutUrl, ContactUrl, AboutUpperUrl, AboutSlashUrl,
         AboutQueryUrl, UnknownUrl}

\* <<method, url>> pairs a client sends.
Inputs == ({"GET"} \X Urls) \cup {<<"POST", RootUrl>>, <<"HEAD", AboutUrl>>}

ReqIds == 1..MaxReqs

\* ---------------------------------------------------------------- responses
Resp(status, body) == [status |-> status, body |-> body]

\* Node writes no body in the response to a HEAD request.
Body(method, text) == IF method = "HEAD" THEN "" ELSE text

\* res.end / res.send / res.render's send: one more response written.
Send(r, status, text) ==
    [r EXCEPT !.sent = Append(@, Resp(status, Body(r.method, text)))]

Idle == [target |-> "none", method |-> "", url |-> <<>>, pc |-> "idle",
         idx |-> 0, err |-> FALSE, sent |-> <<>>, trace |-> <<>>]

NewReq(target, method, url) ==
    [target |-> target, method |-> method, url |-> url, pc |-> "new",
     idx |-> 0, err |-> FALSE, sent |-> <<>>, trace |-> <<>>]

\* ---------------------------------------------------------------- registration
\* app.use(fn): a layer that matches every request.
AppUse(stk, name) == Append(stk, [kind |-> "use", name |-> name,
                                  method |-> "", path |-> <<>>])

\* app.get as the claim C9 describes it: a pair already registered is refused.
AppGet_RejectDuplicate(stk, path, name) ==
    IF \E k \in 1..Len(stk) :
          stk[k].kind = "route" /\ stk[k].method = "GET" /\ stk[k].path = path
    THEN stk
    ELSE Append(stk, [kind |-> "route", name |-> name,
                      method |-> "GET", path |-> path])

\* app.get(path, handler): a route layer for GET, appended without any check.
AppGet(stk, path, name) == Append(stk, [kind |-> "route", name |-> name,
                                        method |-> "GET", path |-> path])

\* The same registrations with lines 20 and 22 exchanged.
AppStack_CustomFirst ==
    AppGet(AppGet(AppGet(AppUse(AppUse(<<>>, "custom"), "morgan"),
                         RootUrl, "root"),
                  AboutUrl, "about"),
           ContactUrl, "contact")

\* The stack index.js builds, lines 20-42.
AppStack ==
    AppGet(AppGet(AppGet(AppUse(AppUse(<<>>, "morgan"), "custom"),
                         RootUrl, "root"),
                  AboutUrl, "about"),
           ContactUrl, "contact")

\* ---------------------------------------------------------------- Express matching
UpperChars == <<"A", "B", "C", "D", "E", "F", "G", "H", "I", "J", "K", "L", "M",
                "N", "O", "P", "Q", "R", "S", "T", "U", "V", "W", "X", "Y", "Z">>
LowerChars == <<"a", "b", "c", "d", "e", "f", "g", "h", "i", "j", "k", "l", "m",
                "n", "o", "p", "q", "r", "s", "t", "u", "v", "w", "x", "y", "z">>

ToLower(c) ==
    IF \E k \in 1..Len(UpperChars) : UpperChars[k] = c
    THEN LowerChars[CHOOSE k \in 1..Len(UpperChars) : UpperChars[k] = c]
    ELSE c

LowerSeq(s) == [k \in 1..Len(s) |-> ToLower(s[k])]

\* The path of a request URL: what precedes the first "?".
Pathname(url) ==
    IF \E k \in 1..Len(url) : url[k] = "?"
    THEN SubSeq(url, 1, (CHOOSE k \in 1..Len(url) :
                            /\ url[k] = "?"
                            /\ \A j \in 1..(k - 1) : url[j] # "?") - 1)
    ELSE url

\* Matching as a plain string comparison.
MatchPath_Exact(routePath, path) == path = routePath

\* Express's default path match (case-insensitive, non-strict): the pattern,
\* with one optional trailing slash, against the whole path.
MatchPath(routePath, path) ==
    LET r == LowerSeq(routePath)
        p == LowerSeq(path)
        base == IF Len(r) > 0 /\ r[Len(r)] = "/" THEN SubSeq(r, 1, Len(r) - 1) ELSE r
    IN  p = base \/ p = base \o <<"/">>

\* A GET route also serves HEAD when no HEAD handler is registered.
HandlesMethod(layer, method) ==
    layer.method = (IF method = "HEAD" THEN "GET" ELSE method)

LayerMatches(layer, r) ==
    IF layer.kind = "use" THEN TRUE
    ELSE MatchPath(layer.path, Pathname(r.url)) /\ HandlesMethod(layer, r.method)

\* The router's next(): the first layer at or after index from that matches,
\* or Len(stk) + 1 when none does.
RECURSIVE NextLayer(_, _, _)
NextLayer(stk, from, r) ==
    IF from > Len(stk) THEN Len(stk) + 1
    ELSE IF LayerMatches(stk[from], r) THEN from
    ELSE NextLayer(stk, from + 1, r)

\* Control moves to the next matching layer, or to the final handler.
Enter(r, from) ==
    LET k == NextLayer(stack, from, r)
    IN  [r EXCEPT !.idx = k,
                  !.pc = IF k > Len(stack) THEN "final" ELSE stack[k].name]

Called(r, name) == [r EXCEPT !.trace = Append(@, name)]

\* ---------------------------------------------------------------- request listeners
appVars == <<stack, viewEngine, viewPresent>>
bootVars == <<pc, bound, serverState, appState, tickQueue, backlog, regCalls>>

\* A request handed to a listener: the raw handler, or the app's router.
Dispatch(target, method, url) ==
    IF target = "http"
    THEN [NewReq(target, method, url) EXCEPT !.pc = "handler"]
    ELSE Enter(NewReq(target, method, url), 1)

\* A request reaches slot i; slots fill in order.
Arrive(i) ==
    /\ reqs[i].pc = "idle"
    /\ \A j \in 1..(i - 1) : reqs[j].pc # "idle"
    /\ \E target \in {"http", "express"}, in \in Inputs :
          reqs' = [reqs EXCEPT ![i] = Dispatch(target, in[1], in[2])]
    /\ UNCHANGED <<appVars, bootVars>>

\* Lines 3-10: two independent ifs on req.url, no else, no method test.
RawHandler(i) ==
    /\ reqs[i].target = "http"
    /\ reqs[i].pc = "handler"
    /\ LET r0 == reqs[i]
           r1 == IF r0.url = RootUrl
                 THEN Send(Called(r0, "rawRoot"), 200, "Hello World!")
                 ELSE r0
           r2 == IF r1.url = AboutUrl
                 THEN Send(Called(r1, "rawAbout"), 200, "About page")
                 ELSE r1
       IN  reqs' = [reqs EXCEPT ![i] = [r2 EXCEPT !.pc = "done"]]
    /\ UNCHANGED <<appVars, bootVars>>

\* Line 20: morgan("dev") notes the start of the request and calls next().
Morgan(i) ==
    /\ reqs[i].target = "express"
    /\ reqs[i].pc = "morgan"
    /\ reqs' = [reqs EXCEPT ![i] = Enter(Called(@, "morgan"), @.idx + 1)]
    /\ UNCHANGED <<appVars, bootVars>>

\* Lines 22-29: logs, adds two locals, returns next().
CustomMiddleware(i) ==
    /\ reqs[i].target = "express"
    /\ reqs[i].pc = "custom"
    /\ reqs' = [reqs EXCEPT ![i] = Enter(Called(@, "custom"), @.idx + 1)]
    /\ UNCHANGED <<appVars, bootVars>>

\* Lines 31-34: logs and calls res.render("index"); the view is produced later.
HandleRoot(i) ==
    /\ reqs[i].target = "express"
    /\ reqs[i].pc = "root"
    /\ reqs' = [reqs EXCEPT ![i] = [Called(@, "root") EXCEPT !.pc = "render"]]
    /\ UNCHANGED <<appVars, bootVars>>

\* A failed render that is dropped instead of being passed to next(err).
RenderDone_Swallow(i) ==
    /\ reqs[i].target = "express"
    /\ reqs[i].pc = "render"
    /\ reqs' = [reqs EXCEPT ![i] =
                  IF viewEngine = "ejs" /\ viewPresent
                  THEN [Send(@, 200, "index.ejs") EXCEPT !.pc = "done"]
                  ELSE [@ EXCEPT !.err = TRUE, !.pc = "done"]]
    /\ UNCHANGED <<stack, viewEngine, viewPresent, pc, bound, serverState,
                   appState, tickQueue, backlog, regCalls>>

\* res.render's completion: the page is sent, or the failure goes to next(err),
\* which skips every remaining layer (none handles errors).
RenderDone(i) ==
    /\ reqs[i].target = "express"
    /\ reqs[i].pc = "render"
    /\ reqs' = [reqs EXCEPT ![i] =
                  IF viewEngine = "ejs" /\ viewPresent
                  THEN [Send(@, 200, "index.ejs") EXCEPT !.pc = "done"]
                  ELSE [@ EXCEPT !.err = TRUE, !.pc = "final",
                                 !.idx = Len(stack) + 1]]
    /\ UNCHANGED <<appVars, bootVars>>

\* A handler that serves once and then takes its own route off the stack.
HandleAbout_Once(i) ==
    /\ reqs[i].target = "express"
    /\ reqs[i].pc = "about"
    /\ reqs' = [reqs EXCEPT ![i] =
                  [Send(Called(@, "about"), 200, "About page") EXCEPT !.pc = "done"]]
    /\ stack' = SelectSeq(stack, LAMBDA l : l.name # "about")
    /\ UNCHANGED <<viewEngine, viewPresent, pc, bound, serverState,
                   appState, tickQueue, backlog, regCalls>>

\* A handler that answers on a response object shared by all requests (the
\* one of the latest request).
HandleAbout_Shared(i) ==
    /\ reqs[i].target = "express"
    /\ reqs[i].pc = "about"
    /\ LET last == CHOOSE j \in 1..MaxReqs :
                      /\ reqs[j].pc # "idle"
                      /\ \A k \in (j + 1)..MaxReqs : reqs[k].pc = "idle"
           mine == [Called(reqs[i], "about") EXCEPT !.pc = "done"]
       IN  reqs' = IF last = i
                   THEN [reqs EXCEPT ![i] = Send(mine, 200, "About page")]
                   ELSE [reqs EXCEPT ![i] = mine,
                                     ![last] = Send(@, 200, "About page")]
    /\ UNCHANGED <<stack, viewEngine, viewPresent, pc, bound, serverState,
                   appState, tickQueue, backlog, regCalls>>

\* Lines 36-38.
HandleAbout(i) ==
    /\ reqs[i].target = "express"
    /\ reqs[i].pc = "about"
    /\ reqs' = [reqs EXCEPT ![i] =
                  [Send(Called(@, "about"), 200, "About page") EXCEPT !.pc = "done"]]
    /\ UNCHANGED <<appVars, bootVars>>

\* Lines 40-42.
HandleContact(i) ==
    /\ reqs[i].target = "express"
    /\ reqs[i].pc = "contact"
    /\ reqs' = [reqs EXCEPT ![i] =
                  [Send(Called(@, "contact"), 200, "Contact page") EXCEPT !.pc = "done"]]
    /\ UNCHANGED <<appVars, bootVars>>

\* Express's final handler: 500 after next(err), 404 when no layer responded.
FinalHandler(i) ==
    /\ reqs[i].target = "express"
    /\ reqs[i].pc = "final"
    /\ reqs' = [reqs EXCEPT ![i] =
                  [(IF @.err
                    THEN Send(Called(@, "final"), 500, "Internal Server Error")
                    ELSE Send(Called(@, "final"), 404, "Not Found"))
                   EXCEPT !.pc = "done"]]
    /\ UNCHANGED <<appVars, bootVars>>

\* ---------------------------------------------------------------- start-up script
ServerPort == 3000
AppPort == 3000
Ports == {ServerPort, AppPort}

\* A bind that never reports the address in use.
CanBind_Always(p) == TRUE

\* bind(2): the port must have no holder.
CanBind(p) == bound[p] = {}

\* index.js registers no 'error' listener on either server.
HasErrorListener(who) == FALSE

Tick(ev, who) == [ev |-> ev, who |-> who]

\* Line 3.
CreateServer ==
    /\ pc = "L3"
    /\ pc' = "L12"
    /\ serverState' = "created"
    /\ UNCHANGED <<appVars, reqs, bound, appState, tickQueue, backlog, regCalls>>

\* Lines 12-14: listen binds at once; 'listening' or 'error' is emitted on the
\* next tick.
ServerListen ==
    /\ pc = "L12"
    /\ pc' = "L18"
    /\ IF CanBind(ServerPort)
       THEN /\ bound' = [bound EXCEPT ![ServerPort] = @ \cup {"server"}]
            /\ serverState' = "listening"
            /\ tickQueue' = Append(tickQueue, Tick("listening", "server"))
       ELSE /\ bound' = bound
            /\ serverState' = "error"
            /\ tickQueue' = Append(tickQueue, Tick("error", "server"))
    /\ UNCHANGED <<appVars, reqs, appState, backlog, regCalls>>

\* Line 18.
CreateApp ==
    /\ pc = "L18"
    /\ pc' = "L20"
    /\ appState' = "created"
    /\ UNCHANGED <<appVars, reqs, bound, serverState, tickQueue, backlog, regCalls>>

\* Line 20.
UseMorgan ==
    /\ pc = "L20"
    /\ pc' = "L21"
    /\ stack' = AppUse(stack, "morgan")
    /\ UNCHANGED <<viewEngine, viewPresent, reqs, bound, serverState, appState,
                   tickQueue, backlog, regCalls>>

\* Line 21.
SetViewEngine ==
    /\ pc = "L21"
    /\ pc' = "L22"
    /\ viewEngine' = "ejs"
    /\ UNCHANGED <<stack, viewPresent, reqs, bound, serverState, appState,
                   tickQueue, backlog, regCalls>>

\* Line 22.
UseCustom ==
    /\ pc = "L22"
    /\ pc' = "L31"
    /\ stack' = AppUse(stack, "custom")
    /\ UNCHANGED <<viewEngine, viewPresent, reqs, bound, serverState, appState,
                   tickQueue, backlog, regCalls>>

\* Line 31.
GetRoot ==
    /\ pc = "L31"
    /\ pc' = "L36"
    /\ stack' = AppGet(stack, RootUrl, "root")
    /\ regCalls' = regCalls + 1
    /\ UNCHANGED <<viewEngine, viewPresent, reqs, bound, serverState, appState,
                   tickQueue, backlog>>

\* Line 36.
GetAbout ==
    /\ pc = "L36"
    /\ pc' = "L40"
    /\ stack' = AppGet(stack, AboutUrl, "about")
    /\ regCalls' = regCalls + 1
    /\ UNCHANGED <<viewEngine, viewPresent, reqs, bound, serverState, appState,
                   tickQueue, backlog>>

\* Line 40.
GetContact ==
    /\ pc = "L40"
    /\ pc' = "L43"
    /\ stack' = AppGet(stack, ContactUrl, "contact")
    /\ regCalls' = regCalls + 1
    /\ UNCHANGED <<viewEngine, viewPresent, reqs, bound, serverState, appState,
                   tickQueue, backlog>>

\* Line 43: app.listen(3000) = http.createServer(app).listen(3000); the script ends.
AppListen ==
    /\ pc = "L43"
    /\ pc' = "loop"
    /\ IF CanBind(AppPort)
       THEN /\ bound' = [bound EXCEPT ![AppPort] = @ \cup {"app"}]
            /\ appState' = "listening"
            /\ tickQueue' = Append(tickQueue, Tick("listening", "app"))
       ELSE /\ bound' = bound
            /\ appState' = "error"
            /\ tickQueue' = Append(tickQueue, Tick("error", "app"))
    /\ UNCHANGED <<appVars, reqs, serverState, backlog, regCalls>>

\* A client connects to a port one of the two servers holds; the connection
\* waits in the socket's backlog until the event loop accepts it.
Connect ==
    /\ pc # "exited"
    /\ Len(backlog) < MaxBacklog
    /\ \E p \in Ports, in \in Inputs :
          /\ bound[p] \cap {"server", "app"} # {}
          /\ backlog' = Append(backlog, [port |-> p, method |-> in[1], url |-> in[2]])
    /\ UNCHANGED <<appVars, reqs, pc, bound, serverState, appState, tickQueue, regCalls>>

\* An 'error' event nobody listens to is thrown: the process exits and its
\* sockets close.
Exit ==
    /\ pc' = "exited"
    /\ bound' = [p \in Ports |-> bound[p] \ {"server", "app"}]
    /\ serverState' = IF serverState = "listening" THEN "closed" ELSE serverState
    /\ appState' = IF appState = "listening" THEN "closed" ELSE appState
    /\ tickQueue' = <<>>
    /\ backlog' = <<>>
    /\ UNCHANGED <<appVars, reqs, regCalls>>

\* The poll phase: the oldest waiting connection is accepted and its request
\* is given to the listener of the server that holds the port.
Poll ==
    /\ backlog # <<>>
    /\ \E i \in ReqIds :
          /\ reqs[i].pc = "idle"
          /\ \A j \in 1..(i - 1) : reqs[j].pc # "idle"
          /\ LET c == Head(backlog)
                 target == IF "server" \in bound[c.port] THEN "http" ELSE "express"
             IN  reqs' = [reqs EXCEPT ![i] = Dispatch(target, c.method, c.url)]
    /\ backlog' = Tail(backlog)
    /\ UNCHANGED <<appVars, pc, bound, serverState, appState, tickQueue, regCalls>>

\* After the script: the next-tick queue is drained first, and only then does
\* the loop poll for connections.
EventLoop ==
    /\ pc = "loop"
    /\ IF tickQueue # <<>>
       THEN IF Head(tickQueue).ev = "error" /\ ~HasErrorListener(Head(tickQueue).who)
            THEN Exit
            ELSE /\ tickQueue' = Tail(tickQueue)
                 /\ UNCHANGED <<appVars, reqs, pc, bound, serverState, appState,
                                backlog, regCalls>>
       ELSE Poll

\* ---------------------------------------------------------------- registration alone
\* app.get with any of the three paths, any number of times up to MaxRoutes.
RegisterRoute ==
    /\ pc = "register"
    /\ Len(stack) < MaxRoutes
    /\ \E route \in {<<RootUrl, "root">>, <<AboutUrl, "about">>,
                     <<ContactUrl, "contact">>} :
          stack' = AppGet(stack, route[1], route[2])
    /\ regCalls' = regCalls + 1
    /\ UNCHANGED <<viewEngine, viewPresent, reqs, pc, bound, serverState, appState,
                   tickQueue, backlog>>

\* ---------------------------------------------------------------- specifications
NoReqs == [i \in ReqIds |-> Idle]

Init ==
    /\ stack = AppStack
    /\ viewEngine = "ejs"
    /\ viewPresent \in BOOLEAN
    /\ reqs = NoReqs
    /\ pc = "driver"
    /\ bound = [p \in Ports |-> {}]
    /\ serverState = "created"
    /\ appState = "created"
    /\ tickQueue = <<>>
    /\ backlog = <<>>
    /\ regCalls = 3

Next ==
    \E i \in ReqIds :
       \/ Arrive(i)
       \/ RawHandler(i)
       \/ Morgan(i)
       \/ CustomMiddleware(i)
       \/ HandleRoot(i)
       \/ RenderDone(i)
       \/ HandleAbout(i)
       \/ HandleContact(i)
       \/ FinalHandler(i)

Spec == Init /\ [][Next]_vars

InitBoot ==
    /\ stack = <<>>
    /\ viewEngine = ""
    /\ viewPresent \in BOOLEAN
    /\ reqs = NoReqs
    /\ pc = "L3"
    /\ bound \in [Ports -> {{}, {"other"}}]
    /\ serverState = "none"
    /\ appState = "none"
    /\ tickQueue = <<>>
    /\ backlog = <<>>
    /\ regCalls = 0

NextBoot ==
    \/ CreateServer
    \/ ServerListen
    \/ CreateApp
    \/ UseMorgan
    \/ SetViewEngine
    \/ UseCustom
    \/ GetRoot
    \/ GetAbout
    \/ GetContact
    \/ AppListen
    \/ Connect
    \/ EventLoop

SpecBoot == InitBoot /\ [][NextBoot]_vars

InitRegister ==
    /\ stack = <<>>
    /\ viewEngine = "ejs"
    /\ viewPresent \in BOOLEAN
    /\ reqs = NoReqs
    /\ pc = "register"
    /\ bound = [p \in Ports |-> {}]
    /\ serverState = "none"
    /\ appState = "created"
    /\ tickQueue = <<>>
    /\ backlog = <<>>
    /\ regCalls = 0

NextRegister == RegisterRoute

SpecRegister == InitRegister /\ [][NextRegister]_vars

\* ---------------------------------------------------------------- claims
Done(i) == reqs[i].pc = "done"
InTrace(r, name) == \E k \in 1..Len(r.trace) : r.trace[k] = name
RouteHandlers == {"root", "about", "contact", "rawRoot", "rawAbout"}
RanAHandler(r) == \E k \in 1..Len(r.trace) : r.trace[k] \in RouteHandlers

\* The paths each listener registers, as written in index.js.
Registered(target) ==
    IF target = "http" THEN {RootUrl, AboutUrl} ELSE {RootUrl, AboutUrl, ContactUrl}

NotFound(r) == <<Resp(404, Body(r.method, "Not Found"))>>
ServerError(r) == <<Resp(500, Body(r.method, "Internal Server Error"))>>
Ok(r, text) == <<Resp(200, Body(r.method, text))>>

\* The responses a request gets from its method and URL alone, listed case by
\* case from what the listeners are observed to do.
Outcome(r) ==
    IF r.target = "http"
    THEN IF r.url = RootUrl THEN Ok(r, "Hello World!")
         ELSE IF r.url = AboutUrl THEN Ok(r, "About page")
         ELSE <<>>
    ELSE IF r.method \notin {"GET", "HEAD"} THEN NotFound(r)
         ELSE IF r.url = RootUrl
              THEN (IF viewPresent THEN Ok(r, "index.ejs") ELSE ServerError(r))
         ELSE IF r.url \in {AboutUrl, AboutUpperUrl, AboutSlashUrl, AboutQueryUrl}
              THEN Ok(r, "About page")
         ELSE IF r.url = ContactUrl THEN Ok(r, "Contact page")
         ELSE NotFound(r)

\* C1: once a request's handling has finished, exactly one response has been
\* sent for it, in the raw handler and in the Express app alike.
C1_ExactlyOneResponse ==
    \A i \in ReqIds : Done(i) => Len(reqs[i].sent) = 1

\* C2: a finished request whose URL is none of the listener's registered paths
\* was answered with the not-found outcome, and GET /unknown never with
\* "About page".
C2_UnregisteredNotFound ==
    \A i \in ReqIds :
       (Done(i) /\ reqs[i].url \notin Registered(reqs[i].target))
          => /\ reqs[i].sent = NotFound(reqs[i])
             /\ reqs[i].url = UnknownUrl => reqs[i].sent # Ok(reqs[i], "About page")

\* C3: a route's handler has run for a finished request if and only if the
\* request's method is GET and its URL equals the route's path, and no other
\* handler has run.
C3_HandlerIffMethodAndPath ==
    \A i \in ReqIds :
       Done(i) =>
          LET r == reqs[i]
              exact(path) == r.method = "GET" /\ r.url = path
          IN  IF r.target = "http"
              THEN /\ InTrace(r, "rawRoot") <=> exact(RootUrl)
                   /\ InTrace(r, "rawAbout") <=> exact(AboutUrl)
              ELSE /\ InTrace(r, "root") <=> exact(RootUrl)
                   /\ InTrace(r, "about") <=> exact(AboutUrl)
                   /\ InTrace(r, "contact") <=> exact(ContactUrl)

\* C4: in the Express app the functions run for a request in the order morgan,
\* custom middleware, then the route handler or the final handler; nothing
\* runs before morgan, and no handler before both middlewares.
C4_MiddlewareOrder ==
    \A i \in ReqIds :
       reqs[i].target = "express" =>
          LET t == reqs[i].trace
          IN  /\ Len(t) >= 1 => t[1] = "morgan"
              /\ Len(t) >= 2 => t[2] = "custom"
              /\ \A k \in 3..Len(t) : t[k] \in {"root", "about", "contact", "final"}
              /\ reqs[i].pc \in {"root", "about", "contact", "final", "render", "done"}
                    => Len(t) >= 2
              /\ reqs[i].sent # <<>> => Len(t) >= 3

C4_Witness ==
    \E i \in ReqIds :
       /\ Done(i)
       /\ reqs[i].trace = <<"morgan", "custom", "contact">>
       /\ reqs[i].sent = Ok(reqs[i], "Contact page")

\* C5: dispatching changes neither the route table nor the settings, and two
\* finished requests with the same listener, method and URL got the same
\* response, whatever was dispatched in between.
C5_Idempotent ==
    /\ stack = AppStack
    /\ viewEngine = "ejs"
    /\ \A i, j \in ReqIds :
          (/\ Done(i) /\ Done(j)
           /\ reqs[i].target = reqs[j].target
           /\ reqs[i].method = reqs[j].method
           /\ reqs[i].url = reqs[j].url)
             => reqs[i].sent = reqs[j].sent

C5_Witness ==
    \E i, j \in ReqIds :
       /\ i < j /\ Done(i) /\ Done(j)
       /\ reqs[i].target = "express" /\ reqs[j].target = "express"
       /\ reqs[i].method = "GET" /\ reqs[j].method = "GET"
       /\ reqs[i].url = AboutUrl /\ reqs[j].url = AboutUrl
       /\ reqs[i].sent = Ok(reqs[i], "About page")
       /\ reqs[j].sent = reqs[i].sent

C7_FailureIsolated ==
    \A i \in ReqIds :
       reqs[i].err =>
          /\ reqs[i].pc \in {"final", "done"}
          /\ reqs[i].pc = "final" =>
                reqs[i].sent = <<>> /\ reqs[i].trace = <<"morgan", "custom", "root">>
          /\ Done(i) =>
                /\ reqs[i].sent = ServerError(reqs[i])
                /\ reqs[i].trace = <<"morgan", "custom", "root", "final">>
          /\ \A j \in ReqIds :
                (j # i /\ Done(j) /\ ~reqs[j].err) => reqs[j].sent = Outcome(reqs[j])

C7_Witness ==
    \E i, j \in ReqIds :
       /\ i < j
       /\ reqs[i].err /\ Done(i) /\ reqs[i].sent = ServerError(reqs[i])
       /\ Done(j) /\ reqs[j].target = "express" /\ reqs[j].url = ContactUrl
       /\ reqs[j].sent = Ok(reqs[j], "Contact page")

\* C8: every step of handling writes to one request only and leaves the route
\* table and the settings alone, and a request that finishes has the response
\* its own method and URL determine, whatever the others are doing.
C8_Step ==
    /\ stack' = stack
    /\ viewEngine' = viewEngine
    /\ \A i, j \in ReqIds :
          (i # j /\ reqs'[i] # reqs[i]) => reqs'[j] = reqs[j]
    /\ \A i \in ReqIds :
          reqs'[i].pc = "done" => reqs'[i].sent = Outcome(reqs'[i])

C8_Independent == [][C8_Step]_vars

C8_Witness ==
    \E i, j \in ReqIds :
       /\ i < j
       /\ reqs[i].target = "express" /\ reqs[i].pc = "custom"
       /\ reqs[j].target = "express" /\ Done(j)
       /\ reqs[j].url = AboutUrl /\ reqs[j].sent = Ok(reqs[j], "About page")

C10_OneListener ==
    /\ ~(serverState = "listening" /\ appState = "listening")
    /\ \A p \in Ports : Cardinality(bound[p]) <= 1
    /\ pc \in {"loop", "exited"} => appState = "error" /\ ~HasErrorListener("app")
    /\ \A i \in ReqIds : reqs[i].target # "express"

C10_Witness ==
    /\ pc = "loop"
    /\ serverState = "listening"
    /\ bound[ServerPort] = {"server"}
    /\ appState = "error"
    /\ backlog # <<>>

====
